---- MODULE Spec2Model ----
(***************************************************************************)
(* The messaging subsystem of the Messages component                        *)
(* (src/src/components/Explore.tsx, lines 581-2040): the realtime store     *)
(* (chats/<id>, userChats/<uid>/<id>, messages/<id>) shared by all          *)
(* clients, and per client the React state of one mounted Messages view     *)
(* (chats, activeChat) with the handlers that write to the store.           *)
(*                                                                          *)
(* Every handler is split at its awaits: the first step is the handler up   *)
(* to and including its first write, every later step is one awaited        *)
(* write; the code after the last await (setState calls, notification)      *)
(* runs with the last write.  A handler reads the `chats` and `activeChat`  *)
(* of the render it was created in, i.e. the values at call time.           *)
(***************************************************************************)
EXTENDS Integers, Sequences, FiniteSets, TLC

\* ------------------------------------------------------------------ bounds
NumUsers == 2          \* user ids 1..NumUsers (a uid stands for its rank in string order)
MaxGroups == 1         \* push() keys handed out for group chats
MaxOps == 3            \* handler calls that write to the store (each reads new Date() at most once)
MaxScenarioOps == 4    \* the same, for a run with a group chat or on the end-to-end scenario
MaxMsgs == 2           \* messages pushed to one chat
MaxFailures == 1       \* writes that are rejected by the store

MaxPushes == 3         \* messages pushed to the chat whose list is watched
MaxServerTime == 3     \* values of the store's clock while those messages arrive
MaxLikeCalls == 4      \* handleLikePost calls on the post
NumModules == 2        \* learning modules
NumSections == 2       \* sections of each module
MaxProgressOps == 3    \* calls of the Learn view that write the progress document
NumProfiles == 3       \* documents of the users collection, the searcher's among them

Users == 1..NumUsers
NoUser == 0
Profiles == 1..NumProfiles

\* Text is a sequence of tokens; the token " " is a whitespace character.
Space == " "
Drafts == { <<>>, <<Space>>, <<Space, "hi", Space>> }
NameInputs == { <<Space>>, <<"Study">>, <<"Study", Space, "Group">> }
GroupNameInputs == { <<>>, <<"Study">> }

\* ------------------------------------------------------------- identifiers
\* Array.prototype.join('_') of two uids.
Join(a, b) == <<a, b>>

\* [a, b].sort(): ascending order of the two uid strings.
SortPair(a, b) == IF a <= b THEN <<a, b>> ELSE <<b, a>>

PairIdUnsorted(self, other) == Join(self, other)

\* `${[currentUser.uid, otherUserId].sort().join('_')}`
PairId(self, other) == Join(SortPair(self, other)[1], SortPair(self, other)[2])

\* chatRef.key of push(ref(realtimeDb, 'chats')): the n-th generated key.
GroupId(n) == <<NoUser, n>>

GroupIds == { GroupId(n) : n \in 1..MaxGroups }
ChatIds == { Join(a, b) : a, b \in Users } \cup GroupIds

\* ----------------------------------------------------------------- records
NoMsg == [content |-> <<>>, senderId |-> NoUser]

\* A node of chats/ with no data: the store holds no such record.
EmptyRec ==
  [type |-> "none", name |-> <<>>, participants |-> {}, details |-> {},
   admins |-> {}, createdBy |-> NoUser, createdAt |-> 0, updatedAt |-> 0,
   lastMessage |-> NoMsg]

\* snapshot.exists()
Exists(rec) == rec # EmptyRec

\* update(ref, fields): the named children are replaced, the others kept.
Update(rec, fields) ==
  [f \in DOMAIN rec |-> IF f \in DOMAIN fields THEN fields[f] ELSE rec[f]]

\* String.prototype.trim(): leading and trailing whitespace removed.
RECURSIVE TrimLeft(_)
TrimLeft(s) == IF s # <<>> /\ Head(s) = Space THEN TrimLeft(Tail(s)) ELSE s

RECURSIVE TrimRight(_)
TrimRight(s) ==
  IF s # <<>> /\ s[Len(s)] = Space THEN TrimRight(SubSeq(s, 1, Len(s) - 1)) ELSE s

Trim(s) == TrimRight(TrimLeft(s))

\* ------------------------------------------------------------------- state
VARIABLES
  chats,        \* store: chats/<id>
  userChats,    \* store: userChats/<uid>, the set of chat ids with a marker
  messages,     \* store: messages/<id>, the log in push order
  nextGroup,    \* number of push() keys handed out for chats
  clock,        \* the value new Date() returns next
  nFailed,      \* number of rejected writes
  localChats,   \* per client: useState `chats`, as id -> loaded record
  activeChat,   \* per client: useState `activeChat`
  aliased,      \* per client: activeChat is the very object held in `chats`
  sub,          \* per client: the userChats subscription has an event to deliver
  op,           \* per client: the handler in flight and its closure
  event,        \* the last handler call: who, which handler, its input, its outcome
  e2e,          \* history: how far the run has followed the end-to-end scenario
  raced,        \* history, per client: another client wrote to the chat its deleteChat is deleting
  nowSec,       \* presence: what new Date() returns, in seconds
  status,       \* store: status/<uid>, the presence record of each user
  view,         \* per client: the Messages view is not mounted, mounted, or gone with its tab
  conn,         \* per client: the '.info/connected' signal has reached the mounted view
  timer,        \* per client: when the 30 s interval fires next
  onlineStatus, \* per client: useState `onlineStatus`, the statuses as last computed
  profiles,     \* store: the users collection
  searcher,     \* search: the user who searched last
  searchQuery,  \* search: useState `searchQuery` of that user
  searchResults, \* search: useState `searchResults` of that user, as document ids
  msgLog,       \* store: messages/<id> of the watched chat, push key -> stored timestamp
  inFlight,     \* the pushes to that chat that have a key and have not reached the store
  nextKey,      \* the push key handed out next
  serverNow,    \* what the store puts for serverTimestamp()
  messagesList, \* useState `messages` of the client watching that chat
  registrations,\* per client: the value listeners its mounted view has on messages/<id>
  effectChat,   \* per client: the activeChat the message effect last ran for
  toDeliver,    \* per client: the paths messages/<id> whose listener has an event to deliver
  viewMessages,        \* per client: useState `messages`, with the chat the list was read from
  userData, \* per client: useState `userData` of the AuthProvider, the username in it
  profileData, \* per client: useState `profileData` of the Profile view, the username in it
  saving, \* per client: the handleSaveProfile call in flight
  newMessage, \* per client: useState `newMessage`, the draft in the composer
  second, \* per client: a second sendMessage call in flight beside the one in `op`
  copies, \* history, per client: the pushes made of the draft since it was typed
  post, \* store: one document of posts, its likes and its likesCount
  postView, \* per client: the likes of the post in useState `posts`, as last delivered
  likeCalls, \* number of handleLikePost calls made
  progressDoc, \* store: userProgress/<uid>.modules, module id -> progress
  userProgress, \* client: useState `userProgress` of the Learn view
  progressLoaded, \* client: loadUserProgress has delivered the document
  selectedModule, \* client: useState `selectedModule`, 0 for none
  currentSectionIndex, \* client: useState `currentSectionIndex`
  pendingProgress, \* client: the setUserProgress calls that wait for their setDoc to resolve
  progressOps \* number of handler calls that wrote the document

vars == <<chats, userChats, messages, nextGroup, clock, nFailed,
          localChats, activeChat, aliased, sub, op, event, e2e, raced,
          nowSec, status, view, conn, timer, onlineStatus,
          profiles, searcher, searchQuery, searchResults,
          msgLog, inFlight, nextKey, serverNow, messagesList,
          registrations, effectChat, toDeliver, viewMessages,
          userData, profileData, saving,
          newMessage, second, copies,
          post, postView, likeCalls,
          progressDoc, userProgress, progressLoaded, selectedModule, currentSectionIndex, pendingProgress, progressOps>>

\* The state of the chats and of the presence tracking.
messaging == <<chats, userChats, messages, nextGroup, clock, nFailed,
               localChats, activeChat, aliased, sub, op, event, e2e, raced>>

presence == <<nowSec, status, view, conn, timer, onlineStatus>>

search == <<profiles, searcher, searchQuery, searchResults>>
ordering == <<msgLog, inFlight, nextKey, serverNow, messagesList>>
listening == <<registrations, effectChat, toDeliver, viewMessages>>

account == <<userData, profileData, saving>>
composer == <<newMessage, second, copies>>
social == <<post, postView, likeCalls>>
learning == <<progressDoc, userProgress, progressLoaded, selectedModule, currentSectionIndex, pendingProgress, progressOps>>
store == <<chats, userChats, messages>>

NoChat == [id |-> GroupId(0), rec |-> EmptyRec]

Idle == [pc |-> "idle", chat |-> GroupId(0), queue |-> <<>>, content |-> <<>>,
         wasActive |-> FALSE]

NoEvent == [who |-> NoUser, fn |-> "none", text |-> <<>>, result |-> "none"]

Ev(u, fn, text, result) == [who |-> u, fn |-> fn, text |-> text, result |-> result]

\* status/<uid> with no data.
NoStatus == [isOnline |-> FALSE, lastSeen |-> -1]

\* Nobody has opened the Messages view yet.
InitPresence ==
  /\ nowSec = 0
  /\ status = [u \in Users |-> NoStatus]
  /\ view = [u \in Users |-> "away"]
  /\ conn = [u \in Users |-> FALSE]
  /\ timer = [u \in Users |-> 0]
  /\ onlineStatus = [u \in Users |-> [w \in Users |-> NoStatus]]

InitMessaging ==
  /\ chats = [c \in ChatIds |-> EmptyRec]
  /\ userChats = [u \in Users |-> {}]
  /\ messages = [c \in ChatIds |-> <<>>]
  /\ nextGroup = 0
  /\ clock = 1
  /\ nFailed = 0
  /\ localChats = [u \in Users |-> [c \in ChatIds |-> EmptyRec]]
  /\ activeChat = [u \in Users |-> NoChat]
  /\ aliased = [u \in Users |-> FALSE]
  /\ sub = [u \in Users |-> TRUE]
  /\ op = [u \in Users |-> Idle]
  /\ event = NoEvent
  /\ e2e = "start"
  /\ raced = [u \in Users |-> FALSE]

\* A users collection of empty documents, nothing searched.
NoProfile == [displayName |-> <<>>, username |-> <<>>, email |-> <<>>]

InitSearch ==
  /\ profiles = [x \in Profiles |-> NoProfile]
  /\ searcher = NoUser
  /\ searchQuery = <<>>
  /\ searchResults = <<>>

PushKeys == 1..MaxPushes
NoStamp == 0

InitOrdering ==
  /\ msgLog = [k \in PushKeys |-> NoStamp]
  /\ inFlight = {}
  /\ nextKey = 1
  /\ serverNow = 1
  /\ messagesList = <<>>

NoList == [chat |-> GroupId(0), list |-> <<>>]

InitListening ==
  /\ registrations = [u \in Users |-> {}]
  /\ effectChat = [u \in Users |-> NoChat]
  /\ toDeliver = [u \in Users |-> {}]
  /\ viewMessages = [u \in Users |-> NoList]

\* Nobody is signed in.
SignedOut == [signedIn |-> FALSE, username |-> <<>>]

InitAccount ==
  /\ userData = [u \in Users |-> SignedOut]
  /\ profileData = [u \in Users |-> [username |-> <<>>]]
  /\ saving = [u \in Users |-> "idle"]

InitComposer ==
  /\ newMessage = [u \in Users |-> <<>>]
  /\ second = [u \in Users |-> Idle]
  /\ copies = [u \in Users |-> 0]

\* A post as handleCreatePost stores it, no client has it in its feed yet.
InitSocial ==
  /\ post = [likes |-> {}, likesCount |-> 0]
  /\ postView = [u \in Users |-> {}]
  /\ likeCalls = 0

Modules == 1..NumModules
Sections == 1..NumSections

\* userProgress[module.id] is undefined.
NoProgress == [started |-> FALSE, completedSections |-> <<>>, currentSection |-> 0]

\* No progress document, the Learn view just mounted.
InitLearning ==
  /\ progressDoc = [m \in Modules |-> NoProgress]
  /\ userProgress = [m \in Modules |-> NoProgress]
  /\ progressLoaded = FALSE
  /\ selectedModule = 0
  /\ currentSectionIndex = 0
  /\ pendingProgress = <<>>
  /\ progressOps = 0

Init ==
  /\ InitMessaging /\ InitPresence /\ InitSearch /\ InitOrdering /\ InitListening
  /\ InitAccount /\ InitComposer /\ InitSocial /\ InitLearning

\* The bound on the handler calls that write: MaxOps of them, and
\* MaxScenarioOps in a run that still follows the end-to-end scenario or in
\* which a group chat was created (the creation and three calls on the group).
CanWrite ==
  clock <= (IF e2e = "off" /\ nextGroup = 0 THEN MaxOps ELSE MaxScenarioOps)

\* The marker userChats/<uid>/<id> is written or removed; the subscription of
\* that user (onValue on userChats/<uid>) gets an event when the value changed.
SetMarkers(u, ids) ==
  /\ userChats' = [userChats EXCEPT ![u] = ids]
  /\ sub' = IF ids # userChats[u]
              THEN [sub EXCEPT ![u] = TRUE]
              ELSE sub

\* ------------------------------------------------- the client's own state
\* useEffect "Load user's chats": the onValue callback on userChats/<uid>.
\* With a snapshot it loads chats/<id> of every marker and keeps the records
\* that exist; without one (no marker left) it leaves `chats` as it is.
LoadChats(u) ==
  /\ sub[u]
  /\ sub' = [sub EXCEPT ![u] = FALSE]
  /\ IF userChats[u] # {}
       THEN /\ localChats' = [localChats EXCEPT ![u] =
                 [c \in ChatIds |-> IF c \in userChats[u] THEN chats[c] ELSE EmptyRec]]
            /\ aliased' = [aliased EXCEPT ![u] = FALSE]
       ELSE UNCHANGED <<localChats, aliased>>
  /\ UNCHANGED <<store, nextGroup, clock, nFailed, activeChat, op, event>>

\* onClick={() => setActiveChat(chat)} on an entry of the chat list.
SelectChat(u, c) ==
  /\ Exists(localChats[u][c])
  /\ activeChat[u] # [id |-> c, rec |-> localChats[u][c]] \/ ~aliased[u]
  /\ activeChat' = [activeChat EXCEPT ![u] = [id |-> c, rec |-> localChats[u][c]]]
  /\ aliased' = [aliased EXCEPT ![u] = TRUE]
  /\ UNCHANGED <<store, nextGroup, clock, nFailed, localChats, sub, op, event>>

\* The Messages view is unmounted and mounted again (App.tsx renders it only
\* on the 'messages' tab): fresh state, a fresh subscription.  A handler of
\* the old view that is still in flight goes on writing, its setState calls
\* no longer reach the view.
Remount(u) ==
  /\ localChats[u] # [c \in ChatIds |-> EmptyRec] \/ activeChat[u] # NoChat
  /\ localChats' = [localChats EXCEPT ![u] = [c \in ChatIds |-> EmptyRec]]
  /\ activeChat' = [activeChat EXCEPT ![u] = NoChat]
  /\ aliased' = [aliased EXCEPT ![u] = FALSE]
  /\ sub' = [sub EXCEPT ![u] = TRUE]
  /\ op' = [op EXCEPT ![u].wasActive = FALSE]
  /\ UNCHANGED <<store, nextGroup, clock, nFailed, event>>

\* ------------------------------------------------ createOrGetIndividualChat
\* chats.find(chat => chat.type === 'individual' &&
\*                    chat.participants.includes(otherUserId))
ExistingChat(u, other) ==
  { c \in ChatIds : /\ localChats[u][c].type = "individual"
                    /\ other \in localChats[u][c].participants }

NewIndividualChatSelfOnly(self, other, now) ==
  [EmptyRec EXCEPT !.type = "individual",
                   !.participants = {self},
                   !.details = {self},
                   !.createdAt = now,
                   !.updatedAt = now]

NewIndividualChat(self, other, now) ==
  [EmptyRec EXCEPT !.type = "individual",
                   !.participants = {self, other},
                   !.details = {self, other},
                   !.createdAt = now,
                   !.updatedAt = now]

\* Up to the first write: set(ref(realtimeDb, `chats/${chatId}`), newChat).
CreateOrGetIndividualChat(u, other) ==
  /\ op[u].pc = "idle"
  /\ other # u
  /\ IF ExistingChat(u, other) # {}
       THEN LET c == CHOOSE x \in ExistingChat(u, other) : TRUE IN
            /\ activeChat' = [activeChat EXCEPT ![u] = [id |-> c, rec |-> localChats[u][c]]]
            /\ aliased' = [aliased EXCEPT ![u] = TRUE]
            /\ event' = Ev(u, "createOrGetIndividualChat", <<>>, "existing")
            /\ UNCHANGED <<store, nextGroup, clock, nFailed, localChats, sub, op>>
       ELSE LET chatId == PairId(u, other) IN
            /\ CanWrite
            /\ chats' = [chats EXCEPT ![chatId] = NewIndividualChat(u, other, clock)]
            /\ clock' = clock + 1
            /\ op' = [op EXCEPT ![u] =
                        [Idle EXCEPT !.pc = "individual_markers", !.chat = chatId,
                                     !.queue = <<u, other>>]]
            /\ event' = Ev(u, "createOrGetIndividualChat", <<>>, "pending")
            /\ UNCHANGED <<userChats, messages, nextGroup, nFailed, localChats,
                           activeChat, aliased, sub>>

\* set(ref(realtimeDb, `userChats/${...}/${chatId}`), true): the caller's
\* marker, then the other user's; after the second the success notification.
IndividualChatMarker(u) ==
  /\ op[u].pc = "individual_markers"
  /\ LET who == Head(op[u].queue) IN
       SetMarkers(who, userChats[who] \cup {op[u].chat})
  /\ IF Tail(op[u].queue) = <<>>
       THEN /\ op' = [op EXCEPT ![u] = Idle]
            /\ event' = Ev(u, "createOrGetIndividualChat", <<>>, "success")
       ELSE /\ op' = [op EXCEPT ![u].queue = Tail(@)]
            /\ UNCHANGED event
  /\ UNCHANGED <<chats, messages, nextGroup, clock, nFailed, localChats, activeChat, aliased>>

\* ----------------------------------------------------------- createGroupChat
\* selectedUsers: the users picked in the dialog, in the order picked; the
\* search never offers the caller and a picked user cannot be picked again.
Selections(u) ==
  { s \in UNION { [1..n -> Users \ {u}] : n \in 0..(NumUsers - 1) } :
      \A i, j \in DOMAIN s : i # j => s[i] # s[j] }

Range(s) == { s[i] : i \in DOMAIN s }

\* groupName || `Group with ${participants.length} members`
GroupName(groupName, n) ==
  IF groupName # <<>> THEN groupName
  ELSE << "Group with " \o ToString(n) \o " members" >>

NewGroupChatNoCreator(self, selected, groupName, now) ==
  [EmptyRec EXCEPT !.type = "group",
                   !.name = GroupName(groupName, Len(selected) + 1),
                   !.participants = Range(selected),
                   !.details = Range(selected),
                   !.admins = {self},
                   !.createdBy = self,
                   !.createdAt = now,
                   !.updatedAt = now]

NewGroupChat(self, selected, groupName, now) ==
  [EmptyRec EXCEPT !.type = "group",
                   !.name = GroupName(groupName, Len(selected) + 1),
                   !.participants = {self} \cup Range(selected),
                   !.details = {self} \cup Range(selected),
                   !.admins = {self},
                   !.createdBy = self,
                   !.createdAt = now,
                   !.updatedAt = now]

TooFewSelectedNever(selected) == Len(selected) < 0

\* selectedUsers.length < 1
TooFewSelected(selected) == Len(selected) < 1

\* Up to the first write: push(ref(realtimeDb, 'chats')), then set(chatRef, newChat).
CreateGroupChat(u, selected, groupName) ==
  /\ op[u].pc = "idle"
  /\ IF TooFewSelected(selected)
       THEN /\ event' = Ev(u, "createGroupChat", groupName, "invalid")
            /\ UNCHANGED <<store, nextGroup, clock, nFailed, localChats, activeChat,
                           aliased, sub, op>>
       ELSE LET chatId == GroupId(nextGroup + 1) IN
            /\ nextGroup < MaxGroups
            /\ CanWrite
            /\ nextGroup' = nextGroup + 1
            /\ chats' = [chats EXCEPT ![chatId] = NewGroupChat(u, selected, groupName, clock)]
            /\ clock' = clock + 1
            /\ op' = [op EXCEPT ![u] =
                        [Idle EXCEPT !.pc = "group_markers", !.chat = chatId,
                                     !.queue = <<u>> \o selected]]
            /\ event' = Ev(u, "createGroupChat", groupName, "pending")
            /\ UNCHANGED <<userChats, messages, nFailed, localChats, activeChat,
                           aliased, sub>>

\* for (const userId of participants)
\*   await set(ref(realtimeDb, `userChats/${userId}/${chatId}`), true)
GroupChatMarker(u) ==
  /\ op[u].pc = "group_markers"
  /\ LET who == Head(op[u].queue) IN
       SetMarkers(who, userChats[who] \cup {op[u].chat})
  /\ IF Tail(op[u].queue) = <<>>
       THEN /\ op' = [op EXCEPT ![u] = Idle]
            /\ event' = Ev(u, "createGroupChat", <<>>, "success")
       ELSE /\ op' = [op EXCEPT ![u].queue = Tail(@)]
            /\ UNCHANGED event
  /\ UNCHANGED <<chats, messages, nextGroup, clock, nFailed, localChats, activeChat, aliased>>

\* --------------------------------------------------------------- leaveGroup
\* if (activeChat?.id === chatId) setActiveChat(null), with the activeChat of
\* the render the handler was created in.
IsActive(u, c) == Exists(activeChat[u].rec) /\ activeChat[u].id = c

ClearActive(u) ==
  IF op[u].wasActive
    THEN /\ activeChat' = [activeChat EXCEPT ![u] = NoChat]
         /\ aliased' = [aliased EXCEPT ![u] = FALSE]
    ELSE UNCHANGED <<activeChat, aliased>>

\* The fields leaveGroup writes back, computed from the caller's loaded copy.
LeaveFields(chat, self, now) ==
  [participants |-> chat.participants \ {self},
   details |-> chat.details \ {self},
   admins |-> chat.admins \ {self},
   updatedAt |-> now]

\* Called from the confirm dialog (a group of the chat list) or from the group
\* settings (activeChat.id); up to its first write, the remove or the update
\* of chats/<id>.
LeaveGroup(u, c) ==
  /\ op[u].pc = "idle"
  /\ localChats[u][c].type = "group" \/ (IsActive(u, c) /\ activeChat[u].rec.type = "group")
  /\ LET chat == localChats[u][c] IN
     IF ~Exists(chat)
       THEN /\ event' = Ev(u, "leaveGroup", <<>>, "returned")
            /\ UNCHANGED <<store, nextGroup, clock, nFailed, localChats, activeChat,
                           aliased, sub, op>>
       ELSE /\ CanWrite
            /\ clock' = clock + 1
            /\ IF chat.participants \ {u} = {}
                 THEN /\ chats' = [chats EXCEPT ![c] = EmptyRec]
                      /\ op' = [op EXCEPT ![u] =
                                  [Idle EXCEPT !.pc = "leave_messages", !.chat = c,
                                               !.wasActive = IsActive(u, c)]]
                 ELSE /\ chats' = [chats EXCEPT ![c] = Update(@, LeaveFields(chat, u, clock))]
                      /\ op' = [op EXCEPT ![u] =
                                  [Idle EXCEPT !.pc = "leave_marker", !.chat = c,
                                               !.wasActive = IsActive(u, c)]]
            /\ event' = Ev(u, "leaveGroup", <<>>, "pending")
            /\ UNCHANGED <<userChats, messages, nextGroup, nFailed, localChats,
                           activeChat, aliased, sub>>

\* remove(ref(realtimeDb, `messages/${chatId}`)) after the chat was removed.
LeaveGroupMessages(u) ==
  /\ op[u].pc = "leave_messages"
  /\ messages' = [messages EXCEPT ![op[u].chat] = <<>>]
  /\ op' = [op EXCEPT ![u].pc = "leave_marker"]
  /\ UNCHANGED <<chats, userChats, nextGroup, clock, nFailed, localChats, activeChat,
                 aliased, sub, event>>

\* remove(ref(realtimeDb, `userChats/${currentUser.uid}/${chatId}`)), then
\* setActiveChat(null) and the success notification.
LeaveGroupMarker(u) ==
  /\ op[u].pc = "leave_marker"
  /\ SetMarkers(u, userChats[u] \ {op[u].chat})
  /\ ClearActive(u)
  /\ op' = [op EXCEPT ![u] = Idle]
  /\ event' = Ev(u, "leaveGroup", <<>>, "success")
  /\ UNCHANGED <<chats, messages, nextGroup, clock, nFailed, localChats>>

\* ---------------------------------------- the admin-gated group operations
\* The group settings dialog is rendered for activeChat?.type === 'group'.
InGroupSettings(u) == Exists(activeChat[u].rec) /\ activeChat[u].rec.type = "group"

\* activeChat.admins?.includes(currentUser.uid)
IsAdmin(u) == u \in activeChat[u].rec.admins

\* updateGroupName: the whole handler, its one write included.
UpdateGroupName(u, text) ==
  /\ op[u].pc = "idle"
  /\ InGroupSettings(u)
  /\ IF Trim(text) = <<>>
       THEN /\ event' = Ev(u, "updateGroupName", text, "returned")
            /\ UNCHANGED <<chats, clock>>
       ELSE IF ~IsAdmin(u)
       THEN /\ event' = Ev(u, "updateGroupName", text, "denied")
            /\ UNCHANGED <<chats, clock>>
       ELSE /\ CanWrite
            /\ clock' = clock + 1
            /\ chats' = [chats EXCEPT ![activeChat[u].id] =
                           Update(@, [name |-> Trim(text), updatedAt |-> clock])]
            /\ event' = Ev(u, "updateGroupName", text, "success")
  /\ UNCHANGED <<userChats, messages, nextGroup, nFailed, localChats, activeChat,
                 aliased, sub, op>>

\* The fields removeUserFromGroup writes back, computed from activeChat.
RemoveFields(chat, userId, now) ==
  [participants |-> chat.participants \ {userId},
   details |-> chat.details \ {userId},
   admins |-> chat.admins \ {userId},
   updatedAt |-> now]

\* removeUserFromGroup up to its first write.  The remove button is rendered
\* for the other members of activeChat, and only for an admin.
RemoveUserFromGroup(u, userId) ==
  /\ op[u].pc = "idle"
  /\ InGroupSettings(u)
  /\ IF ~IsAdmin(u)
       THEN /\ event' = Ev(u, "removeUserFromGroup", <<>>, "denied")
            /\ UNCHANGED <<chats, clock, op>>
       ELSE /\ userId \in activeChat[u].rec.participants \ {u}
            /\ CanWrite
            /\ clock' = clock + 1
            /\ chats' = [chats EXCEPT ![activeChat[u].id] =
                           Update(@, RemoveFields(activeChat[u].rec, userId, clock))]
            /\ op' = [op EXCEPT ![u] =
                        [Idle EXCEPT !.pc = "remove_marker", !.chat = activeChat[u].id,
                                     !.queue = <<userId>>]]
            /\ event' = Ev(u, "removeUserFromGroup", <<>>, "pending")
  /\ UNCHANGED <<userChats, messages, nextGroup, nFailed, localChats, activeChat,
                 aliased, sub>>

\* remove(ref(realtimeDb, `userChats/${userId}/${activeChat.id}`))
RemoveUserMarker(u) ==
  /\ op[u].pc = "remove_marker"
  /\ LET userId == Head(op[u].queue) IN
       SetMarkers(userId, userChats[userId] \ {op[u].chat})
  /\ op' = [op EXCEPT ![u] = Idle]
  /\ event' = Ev(u, "removeUserFromGroup", <<>>, "success")
  /\ UNCHANGED <<chats, messages, nextGroup, clock, nFailed, localChats, activeChat, aliased>>

\* The admins toggleAdmin writes: filter() builds a new array, push() extends
\* the array of activeChat itself.
ToggledAdmins(admins, userId) ==
  IF userId \in admins THEN admins \ {userId} ELSE admins \cup {userId}

\* toggleAdmin: the whole handler, its one write included.  After a push the
\* array of activeChat (the one the chat list holds too, while it is the same
\* object) has the new admin; after a filter it is as before.
ToggleAdmin(u, userId) ==
  /\ op[u].pc = "idle"
  /\ InGroupSettings(u)
  /\ IF ~IsAdmin(u)
       THEN /\ event' = Ev(u, "toggleAdmin", <<>>, "denied")
            /\ UNCHANGED <<chats, clock, activeChat, localChats>>
       ELSE LET c == activeChat[u].id
                admins == activeChat[u].rec.admins
                pushed == admins \cup {userId}
            IN
            /\ userId \in activeChat[u].rec.participants \ {u}
            /\ CanWrite
            /\ clock' = clock + 1
            /\ chats' = [chats EXCEPT ![c] =
                           Update(@, [admins |-> ToggledAdmins(admins, userId),
                                      updatedAt |-> clock])]
            /\ activeChat' = [activeChat EXCEPT ![u].rec.admins = pushed]
            /\ localChats' = IF aliased[u]
                               THEN [localChats EXCEPT ![u][c].admins = pushed]
                               ELSE localChats
            /\ event' = Ev(u, "toggleAdmin", <<>>, "success")
  /\ UNCHANGED <<userChats, messages, nextGroup, nFailed, aliased, sub, op>>

\* -------------------------------------------------------------- sendMessage
\* !newMessage.trim()
IsBlankNoTrim(text) == text = <<>>

IsBlank(text) == Trim(text) = <<>>

NewMessageUntrimmed(u, text) == [senderId |-> u, content |-> text]

NewMessage(u, text) == [senderId |-> u, content |-> Trim(text)]

\* sendMessage up to its first write, the push to messages/<activeChat.id>.
SendMessage(u, text) ==
  /\ op[u].pc = "idle"
  /\ IF IsBlank(text) \/ ~Exists(activeChat[u].rec)
       THEN /\ event' = Ev(u, "sendMessage", text, "returned")
            /\ UNCHANGED <<messages, clock, op>>
       ELSE LET c == activeChat[u].id IN
            /\ CanWrite
            /\ Len(messages[c]) < MaxMsgs
            /\ clock' = clock + 1
            /\ messages' = [messages EXCEPT ![c] = Append(@, NewMessage(u, text))]
            /\ op' = [op EXCEPT ![u] =
                        [Idle EXCEPT !.pc = "send_lastMessage", !.chat = c,
                                     !.content = NewMessage(u, text).content]]
            /\ event' = Ev(u, "sendMessage", text, "pending")
  /\ UNCHANGED <<chats, userChats, nextGroup, nFailed, localChats, activeChat,
                 aliased, sub>>

\* set(ref(realtimeDb, `chats/${activeChat.id}/lastMessage`), {...})
SendLastMessage(u) ==
  /\ op[u].pc = "send_lastMessage"
  /\ chats' = [chats EXCEPT ![op[u].chat] =
                 Update(@, [lastMessage |-> [content |-> op[u].content, senderId |-> u]])]
  /\ op' = [op EXCEPT ![u].pc = "send_updatedAt"]
  /\ UNCHANGED <<userChats, messages, nextGroup, clock, nFailed, localChats, activeChat,
                 aliased, sub, event>>

\* set(ref(realtimeDb, `chats/${activeChat.id}/updatedAt`), ...), then
\* setNewMessage('').
SendUpdatedAt(u) ==
  /\ op[u].pc = "send_updatedAt"
  /\ chats' = [chats EXCEPT ![op[u].chat] = Update(@, [updatedAt |-> clock])]
  /\ op' = [op EXCEPT ![u] = Idle]
  /\ event' = Ev(u, "sendMessage", <<>>, "success")
  /\ UNCHANGED <<userChats, messages, nextGroup, clock, nFailed, localChats, activeChat,
                 aliased, sub>>

\* --------------------------------------------------------------- deleteChat
OtherUsersNone(chat, self) == {}

\* chat.participants.find(p => p !== currentUser.uid)
OtherUsers(chat, self) == chat.participants \ {self}

\* Called from the confirm dialog for an entry of the chat list that is not a
\* group; up to its first write, the removal of the caller's own marker.
DeleteChat(u, c) ==
  /\ op[u].pc = "idle"
  /\ Exists(localChats[u][c])
  /\ localChats[u][c].type # "group"
  /\ CanWrite
  /\ clock' = clock + 1
  /\ SetMarkers(u, userChats[u] \ {c})
  /\ LET chat == localChats[u][c] IN
     IF chat.type = "individual"
       THEN /\ op' = [op EXCEPT ![u] =
                        [Idle EXCEPT !.pc = IF OtherUsers(chat, u) # {}
                                              THEN "delete_other" ELSE "delete_chat",
                                     !.chat = c,
                                     !.queue = IF OtherUsers(chat, u) # {}
                                                 THEN << CHOOSE p \in OtherUsers(chat, u) : TRUE >>
                                                 ELSE <<>>,
                                     !.wasActive = IsActive(u, c)]]
            /\ event' = Ev(u, "deleteChat", <<>>, "pending")
            /\ UNCHANGED <<activeChat, aliased>>
       ELSE /\ activeChat' = IF IsActive(u, c) THEN [activeChat EXCEPT ![u] = NoChat]
                             ELSE activeChat
            /\ aliased' = IF IsActive(u, c) THEN [aliased EXCEPT ![u] = FALSE] ELSE aliased
            /\ event' = Ev(u, "deleteChat", <<>>, "success")
            /\ UNCHANGED op
  /\ UNCHANGED <<chats, messages, nextGroup, nFailed, localChats>>

\* remove(ref(realtimeDb, `userChats/${otherUser}/${chatId}`))
DeleteChatOther(u) ==
  /\ op[u].pc = "delete_other"
  /\ LET otherUser == Head(op[u].queue) IN
       SetMarkers(otherUser, userChats[otherUser] \ {op[u].chat})
  /\ op' = [op EXCEPT ![u].pc = "delete_chat", ![u].queue = <<>>]
  /\ UNCHANGED <<chats, messages, nextGroup, clock, nFailed, localChats, activeChat,
                 aliased, event>>

\* remove(ref(realtimeDb, `chats/${chatId}`))
DeleteChatRecord(u) ==
  /\ op[u].pc = "delete_chat"
  /\ chats' = [chats EXCEPT ![op[u].chat] = EmptyRec]
  /\ op' = [op EXCEPT ![u].pc = "delete_messages"]
  /\ UNCHANGED <<userChats, messages, nextGroup, clock, nFailed, localChats, activeChat,
                 aliased, sub, event>>

\* remove(ref(realtimeDb, `messages/${chatId}`)), then setActiveChat(null)
\* and the success notification.
DeleteChatMessages(u) ==
  /\ op[u].pc = "delete_messages"
  /\ messages' = [messages EXCEPT ![op[u].chat] = <<>>]
  /\ ClearActive(u)
  /\ op' = [op EXCEPT ![u] = Idle]
  /\ event' = Ev(u, "deleteChat", <<>>, "success")
  /\ UNCHANGED <<chats, userChats, nextGroup, clock, nFailed, localChats, sub>>

\* ------------------------------------------------------------ failed writes
\* The awaited write of the handler in flight is rejected: the catch block
\* shows the error notification, nothing written so far is undone.
WriteFails(u) ==
  /\ op[u].pc # "idle"
  /\ nFailed < MaxFailures
  /\ nFailed' = nFailed + 1
  /\ op' = [op EXCEPT ![u] = Idle]
  /\ event' = Ev(u, op[u].pc, <<>>, "error")
  /\ UNCHANGED <<store, nextGroup, clock, localChats, activeChat, aliased, sub>>

\* ----------------------------------------------------------- specifications
Local(u) ==
  \/ LoadChats(u)
  \/ \E c \in ChatIds : SelectChat(u, c)
  \/ Remount(u)

IndividualOps(u) ==
  \/ \E other \in Users : CreateOrGetIndividualChat(u, other)
  \/ IndividualChatMarker(u)
  \/ \E c \in ChatIds : DeleteChat(u, c)
  \/ DeleteChatOther(u)
  \/ DeleteChatRecord(u)
  \/ DeleteChatMessages(u)

MessageOps(u) ==
  \/ \E text \in Drafts : SendMessage(u, text)
  \/ SendLastMessage(u)
  \/ SendUpdatedAt(u)

GroupOps(u) ==
  \/ \E sel \in Selections(u), g \in GroupNameInputs : CreateGroupChat(u, sel, g)
  \/ GroupChatMarker(u)
  \/ \E c \in ChatIds : LeaveGroup(u, c)
  \/ LeaveGroupMessages(u)
  \/ LeaveGroupMarker(u)
  \/ \E text \in NameInputs : UpdateGroupName(u, text)
  \/ \E userId \in Users : RemoveUserFromGroup(u, userId)
  \/ RemoveUserMarker(u)
  \/ \E userId \in Users : ToggleAdmin(u, userId)

\* The end-to-end scenario of the specification, followed through the handler
\* calls (a step that changes `event`) and the awaited writes of the handler
\* in flight: A creates the group "Study" with B, B tries to rename it, A
\* renames it to "Study Group", B leaves, A leaves.  Any other call, or a
\* call that does not belong at this point, takes the run off the script.
ScenarioGroup == GroupId(1)

E2ECall(stage) ==
  LET g == chats'[ScenarioGroup]
      creator == chats[ScenarioGroup].createdBy
  IN
  CASE stage = "start" /\ event'.fn = "createGroupChat" /\ event'.result = "pending"
         /\ event'.text = <<"Study">> /\ Cardinality(g.participants) = 2
         -> "creating"
    [] stage = "creating" /\ event' = Ev(event.who, "createGroupChat", <<>>, "success")
         -> "created"
    [] stage = "created" /\ event'.fn = "updateGroupName" /\ event'.who # creator
         /\ ~IsBlank(event'.text)
         -> "member renamed"
    [] stage = "member renamed" /\ event'.fn = "updateGroupName" /\ event'.who = creator
         /\ event'.text = <<"Study", Space, "Group">>
         -> "admin renamed"
    [] stage = "admin renamed" /\ event'.fn = "leaveGroup" /\ event'.who # creator
         /\ event'.result = "pending"
         -> "member leaving"
    [] stage = "member leaving" /\ event' = Ev(event.who, "leaveGroup", <<>>, "success")
         -> "member left"
    [] stage = "member left" /\ event'.fn = "leaveGroup" /\ event'.who = creator
         /\ event'.result = "pending"
         -> "admin leaving"
    [] stage = "admin leaving" /\ event' = Ev(event.who, "leaveGroup", <<>>, "success")
         -> "admin left"
    [] OTHER -> "off"

E2EStage ==
  IF event' # event THEN E2ECall(e2e)
  ELSE IF store' # store /\ e2e \notin {"creating", "member leaving", "admin leaving"}
    THEN "off"
    ELSE e2e

Scenario == e2e' = E2EStage

\* The steps of deleteChat after its first write.
DeletePcs == {"delete_other", "delete_chat", "delete_messages"}

\* The record, the log or a marker of chat c is written.
Touched(c) ==
  \/ chats'[c] # chats[c]
  \/ messages'[c] # messages[c]
  \/ \E v \in Users : (c \in userChats'[v]) # (c \in userChats[v])

\* While a deleteChat call of client u is in flight: whether a step of another
\* client has written to the chat it deletes.
Race ==
  raced' = [u \in Users |->
              IF op[u].pc \notin DeletePcs \/ op'[u].pc \notin DeletePcs THEN FALSE
              ELSE IF op'[u] = op[u] /\ Touched(op[u].chat) THEN TRUE
              ELSE raced[u]]

\* Every client, every handler.
Next ==
  /\ \E u \in Users :
       Local(u) \/ IndividualOps(u) \/ MessageOps(u) \/ GroupOps(u) \/ WriteFails(u)
  /\ Scenario
  /\ Race
  /\ UNCHANGED <<presence, search, ordering, listening, account, composer, social, learning>>

Spec == Init /\ [][Next]_vars

\* The individual chats and their messages.
NextIndividual ==
  /\ \E u \in Users : Local(u) \/ IndividualOps(u) \/ MessageOps(u) \/ WriteFails(u)
  /\ Scenario
  /\ Race
  /\ UNCHANGED <<presence, search, ordering, listening, account, composer, social, learning>>

SpecIndividual == Init /\ [][NextIndividual]_vars

\* The group chats, in runs in which the store rejects no write.
NextGroup ==
  /\ \E u \in Users : Local(u) \/ GroupOps(u)
  /\ Scenario
  /\ Race
  /\ UNCHANGED <<presence, search, ordering, listening, account, composer, social, learning>>

SpecGroup == Init /\ [][NextGroup]_vars

\* Only createOrGetIndividualChat runs: clients opening chats with each other.
NextCreate ==
  /\ \E u \in Users :
       \/ Local(u)
       \/ \E other \in Users : CreateOrGetIndividualChat(u, other)
       \/ IndividualChatMarker(u)
  /\ Scenario
  /\ Race
  /\ UNCHANGED <<presence, search, ordering, listening, account, composer, social, learning>>

SpecCreate == Init /\ [][NextCreate]_vars
\* ================================================================ presence
\* The presence effect and the status subscription of the Messages view
\* (Explore.tsx, lines 670-737) and the status viewMessages for a user (1312-1320,
\* 1353-1361).  Time is in seconds; every client reads the same clock.
StaleAfter == 120        \* timeDiff < 120000
HeartbeatEvery == 30     \* setInterval(..., 30000)
MaxTime == 125           \* how long the presence runs are followed
MaxEventTime == 2        \* views are mounted and unmounted, and connectivity changes, up to this time

\* The onValue callback on 'status' of a view, run at time t on the snapshot:
\* isOnline = userStatus.isOnline && timeDiff < 120000.
Effective(st, t) ==
  [isOnline |-> st.isOnline /\ (t - st.lastSeen) < StaleAfter, lastSeen |-> st.lastSeen]

OnlineStatusMap(snapshot, t) ==
  [w \in Users |-> IF snapshot[w] = NoStatus THEN NoStatus ELSE Effective(snapshot[w], t)]

\* A write under status/ has landed: the subscription of every mounted view
\* runs its callback on the new snapshot; a view that is not mounted has no state.
StatusEvent ==
  onlineStatus' = [v \in Users |->
                     IF view'[v] = "mounted" THEN OnlineStatusMap(status', nowSec)
                     ELSE [w \in Users |-> NoStatus]]

\* updateStatus(isOnline): set(userStatusRef, {isOnline, lastSeen: new Date(), uid}).
UpdateStatus(u, isOnline) ==
  status' = [status EXCEPT ![u] = [isOnline |-> isOnline, lastSeen |-> nowSec]]

\* The view is mounted: the presence effect runs (the initial updateStatus(true)
\* is its last write, the interval is started) and the status subscription
\* delivers its first snapshot.  signalled: the '.info/connected' listener was
\* called with true while it was being attached, before that last write.
Mount(u, signalled) ==
  /\ view[u] = "away"
  /\ nowSec <= MaxEventTime
  /\ view' = [view EXCEPT ![u] = "mounted"]
  /\ conn' = [conn EXCEPT ![u] = signalled]
  /\ timer' = [timer EXCEPT ![u] = nowSec + HeartbeatEvery]
  /\ UpdateStatus(u, TRUE)
  /\ StatusEvent
  /\ UNCHANGED nowSec

\* The '.info/connected' listener is called with true: updateStatus(true),
\* then set(ref(realtimeDb, `status/${uid}/isOnline`), false).
ConnectionEstablished(u) ==
  /\ view[u] = "mounted"
  /\ ~conn[u]
  /\ nowSec <= MaxEventTime
  /\ conn' = [conn EXCEPT ![u] = TRUE]
  /\ status' = [status EXCEPT ![u] = [isOnline |-> FALSE, lastSeen |-> nowSec]]
  /\ UNCHANGED <<nowSec, view, timer>>
  /\ StatusEvent

\* The listener is called with false: it does nothing, and nothing was
\* registered with the store to be written on disconnect.
ConnectionLost(u) ==
  /\ view[u] = "mounted"
  /\ conn[u]
  /\ nowSec <= MaxEventTime
  /\ conn' = [conn EXCEPT ![u] = FALSE]
  /\ UNCHANGED <<nowSec, status, view, timer, onlineStatus>>

\* The interval fires: updateStatus(true).
Heartbeat(u) ==
  /\ view[u] = "mounted"
  /\ timer[u] = nowSec
  /\ timer' = [timer EXCEPT ![u] = nowSec + HeartbeatEvery]
  /\ UpdateStatus(u, TRUE)
  /\ UNCHANGED <<nowSec, view, conn>>
  /\ StatusEvent

\* The cleanup of the effect: updateStatus(false), clearInterval, off.
Unmount(u) ==
  /\ view[u] = "mounted"
  /\ nowSec <= MaxEventTime
  /\ view' = [view EXCEPT ![u] = "away"]
  /\ conn' = [conn EXCEPT ![u] = FALSE]
  /\ timer' = [timer EXCEPT ![u] = 0]
  /\ UpdateStatus(u, FALSE)
  /\ StatusEvent
  /\ UNCHANGED nowSec

\* The tab is closed or the client dies: no cleanup runs, nothing is written.
Close(u) ==
  /\ view[u] = "mounted"
  /\ view' = [view EXCEPT ![u] = "closed"]
  /\ conn' = [conn EXCEPT ![u] = FALSE]
  /\ timer' = [timer EXCEPT ![u] = 0]
  /\ onlineStatus' = [onlineStatus EXCEPT ![u] = [w \in Users |-> NoStatus]]
  /\ UNCHANGED <<nowSec, status>>

\* A second passes, once every interval that is due has fired.
Tick ==
  /\ nowSec < MaxTime
  /\ \A u \in Users : view[u] = "mounted" => timer[u] > nowSec
  /\ nowSec' = nowSec + 1
  /\ UNCHANGED <<status, view, conn, timer, onlineStatus>>

\* formatLastSeen(date), called at time t.
FormatLastSeen(date, t) ==
  LET diffInMinutes == (t - date) \div 60 IN
  IF diffInMinutes < 1 THEN <<"Just nowSec">>
  ELSE IF diffInMinutes < 60 THEN <<diffInMinutes, "m ago">>
  ELSE IF diffInMinutes < 1440 THEN <<diffInMinutes \div 60, "h ago">>
  ELSE <<diffInMinutes \div 1440, "d ago">>

\* getOnlineStatus(userId) in the view of client v.
GetOnlineStatus(v, userId) ==
  LET st == onlineStatus[v][userId] IN
  IF st = NoStatus THEN [isOnline |-> FALSE, lastSeen |-> <<"Unknown">>]
  ELSE [isOnline |-> st.isOnline,
        lastSeen |-> IF st.isOnline THEN <<"Online">> ELSE FormatLastSeen(st.lastSeen, nowSec)]

NextPresence ==
  /\ \/ \E u \in Users :
          \/ \E signalled \in BOOLEAN : Mount(u, signalled)
          \/ ConnectionEstablished(u)
          \/ ConnectionLost(u)
          \/ Heartbeat(u)
          \/ Unmount(u)
          \/ Close(u)
     \/ Tick
  /\ UNCHANGED <<messaging, search, ordering, listening, account, composer, social, learning>>

SpecPresence == Init /\ [][NextPresence]_vars

\* ================================================================== search
\* The user search of the Messages view (Explore.tsx, lines 806-930): two
\* range queries on the users collection, a broader scan when they find
\* nothing, and the sort of what was found.  A string is a sequence of
\* characters; the users collection is `profiles`.
QueryLimit == 10         \* limit(10) of the two range queries
BroadLimit == 50         \* limit(50) of the broader scan
MaxResults == 8          \* slice(0, 8)

\* '', the character that ends the range of the queries.
High == "\\uf8ff"

\* The order of the characters in the store (by code point).
Code(ch) ==
  CASE ch = Space -> 32
    [] ch = "A" -> 65
    [] ch = "B" -> 66
    [] ch = "a" -> 97
    [] ch = "b" -> 98
    [] ch = High -> 63743

\* String.prototype.toLowerCase()
LowerChar(ch) == CASE ch = "A" -> "a" [] ch = "B" -> "b" [] OTHER -> ch

ToLowerCase(s) == [i \in DOMAIN s |-> LowerChar(s[i])]

\* s < t in the order of the store: character by character, a prefix first.
RECURSIVE StrLess(_, _)
StrLess(s, t) ==
  IF t = <<>> THEN FALSE
  ELSE IF s = <<>> THEN TRUE
  ELSE IF Code(Head(s)) # Code(Head(t)) THEN Code(Head(s)) < Code(Head(t))
  ELSE StrLess(Tail(s), Tail(t))

StrLeq(s, t) == s = t \/ StrLess(s, t)

\* String.prototype.startsWith / includes
StartsWith(s, p) == Len(p) <= Len(s) /\ SubSeq(s, 1, Len(p)) = p

Includes(s, p) ==
  \E i \in 1..(Len(s) - Len(p) + 1) : SubSeq(s, i, i + Len(p) - 1) = p

\* String.prototype.localeCompare on lower-cased names.
LocaleCompare(s, t) == IF s = t THEN 0 ELSE IF StrLess(s, t) THEN -1 ELSE 1

\* The documents of a set in the order of a query: by the field, then by id.
RECURSIVE OrderedBy(_, _, _)
OrderedBy(ids, db, field) ==
  IF ids = {} THEN <<>>
  ELSE LET first == CHOOSE x \in ids :
                      \A y \in ids \ {x} :
                        \/ StrLess(db[x][field], db[y][field])
                        \/ (db[x][field] = db[y][field] /\ x < y)
       IN <<first>> \o OrderedBy(ids \ {first}, db, field)

\* limit(n)
Limit(seq, n) == SubSeq(seq, 1, IF Len(seq) < n THEN Len(seq) ELSE n)

\* firestoreQuery(usersRef, orderBy(field), startAt(searchTerm),
\*                endAt(searchTerm + ''), limit(10))
RangeQuery(db, field, searchTerm) ==
  Limit(OrderedBy({ x \in Profiles : /\ StrLeq(searchTerm, db[x][field])
                                     /\ StrLeq(db[x][field], searchTerm \o <<High>>) },
                  db, field),
        QueryLimit)

\* firestoreQuery(usersRef, limit(50)): the documents in the order of their ids.
RECURSIVE ById(_)
ById(ids) ==
  IF ids = {} THEN <<>>
  ELSE LET first == CHOOSE x \in ids : \A y \in ids : x <= y
       IN <<first>> \o ById(ids \ {first})

BroadQuery == Limit(ById(Profiles), BroadLimit)

\* The test of each of the three forEach loops on a document.
Matches(mode, doc, searchTerm) ==
  CASE mode = "displayName" -> Includes(ToLowerCase(doc.displayName), searchTerm)
    [] mode = "username" -> Includes(ToLowerCase(doc.username), searchTerm)
    [] mode = "broad" -> \/ Includes(ToLowerCase(doc.displayName), searchTerm)
                         \/ Includes(ToLowerCase(doc.username), searchTerm)
                         \/ Includes(ToLowerCase(doc.email), searchTerm)

\* snapshot.forEach(doc => { if (doc.id !== currentUser?.uid && ...)
\* results.set(doc.id, ...) }): the keys of the Map in the order in which
\* they were first set.
RECURSIVE Collect(_, _, _, _, _, _)
Collect(results, snapshot, db, self, mode, searchTerm) ==
  IF snapshot = <<>> THEN results
  ELSE LET id == Head(snapshot)
           next == IF id # self /\ Matches(mode, db[id], searchTerm)
                        /\ id \notin Range(results)
                     THEN Append(results, id) ELSE results
       IN Collect(next, Tail(snapshot), db, self, mode, searchTerm)

\* aStartsWithDisplay || aStartsWithUsername
StartsWithTerm(doc, searchTerm) ==
  \/ StartsWith(ToLowerCase(doc.displayName), searchTerm)
  \/ StartsWith(ToLowerCase(doc.username), searchTerm)

CompareByNameOnly(a, b, searchTerm) ==
  LocaleCompare(ToLowerCase(a.displayName), ToLowerCase(b.displayName))

\* The comparator of the sort.
Compare(a, b, searchTerm) ==
  IF StartsWithTerm(a, searchTerm) /\ ~StartsWithTerm(b, searchTerm) THEN -1
  ELSE IF ~StartsWithTerm(a, searchTerm) /\ StartsWithTerm(b, searchTerm) THEN 1
  ELSE LocaleCompare(ToLowerCase(a.displayName), ToLowerCase(b.displayName))

\* Array.prototype.sort with that comparator: stable, so each element goes
\* before the first one it is smaller than.
RECURSIVE SortResults(_, _, _)
SortResults(seq, db, searchTerm) ==
  IF seq = <<>> THEN <<>>
  ELSE LET sorted == SortResults(SubSeq(seq, 1, Len(seq) - 1), db, searchTerm)
           x == seq[Len(seq)]
           after == { i \in DOMAIN sorted : Compare(db[x], db[sorted[i]], searchTerm) < 0 }
           pos == IF after = {} THEN Len(sorted) + 1
                  ELSE CHOOSE i \in after : \A k \in after : i <= k
       IN SubSeq(sorted, 1, pos - 1) \o <<x>> \o SubSeq(sorted, pos, Len(sorted))

\* searchUsers: what setSearchResults is called with.
SearchUsersResult(db, self, searchQuery_) ==
  LET searchTerm == Trim(ToLowerCase(searchQuery_))
      byDisplayName == Collect(<<>>, RangeQuery(db, "displayName", searchTerm),
                               db, self, "displayName", searchTerm)
      byUsername == Collect(byDisplayName, RangeQuery(db, "username", searchTerm),
                            db, self, "username", searchTerm)
      results == IF byUsername = <<>>
                   THEN Collect(<<>>, BroadQuery, db, self, "broad", searchTerm)
                   ELSE byUsername
  IN Limit(SortResults(results, db, searchTerm), MaxResults)

\* The documents the users collection is filled from, and the queries typed.
AliceSmith == [displayName |-> <<"A", "b">>, username |-> <<"a", "b">>, email |-> <<"a", "b">>]
BobAlison == [displayName |-> <<"B", "a">>, username |-> <<"b", "A">>, email |-> <<"b", "a">>]

ProfileDocs ==
  { AliceSmith, BobAlison,
    [displayName |-> <<"a", "b">>, username |-> <<"A", "b">>, email |-> <<"b">>],
    [displayName |-> <<"b", "a">>, username |-> <<"b", "b">>, email |-> <<"b">>],
    [displayName |-> <<"B", "b">>, username |-> <<"b", "b">>, email |-> <<"a">>],
    [displayName |-> <<"A", "b">>, username |-> <<"A", "b">>, email |-> <<"b">>],
    [displayName |-> <<"B", "b">>, username |-> <<"A", "b">>, email |-> <<"b">>] }

SearchInputs == { <<Space>>, <<"a">>, <<"A">>, <<"b">>, <<"a", "b">> }

\* Some users collection, nothing searched yet.
InitProfiles ==
  /\ profiles \in [Profiles -> ProfileDocs]
  /\ searcher = NoUser
  /\ searchQuery = <<>>
  /\ searchResults = <<>>

\* The search effect for the query typed by user self: nothing for a blank
\* query, else searchUsers.
SearchUsers(self, text) ==
  /\ searcher' = self
  /\ searchQuery' = text
  /\ searchResults' = IF Trim(text) = <<>> THEN <<>>
                      ELSE SearchUsersResult(profiles, self, text)
  /\ UNCHANGED profiles

NextSearch ==
  /\ \E self \in Profiles, text \in SearchInputs : SearchUsers(self, text)
  /\ UNCHANGED <<messaging, presence, ordering, listening, account, composer, social, learning>>

\* The initial state with the users collection filled.
InitWithProfiles ==
  /\ InitMessaging /\ InitPresence /\ InitProfiles /\ InitOrdering /\ InitListening
  /\ InitAccount /\ InitComposer /\ InitSocial /\ InitLearning

SpecSearch == InitWithProfiles /\ [][NextSearch]_vars

\* ================================================================ messages
\* The message list of the active chat (Explore.tsx, lines 779-800) and the
\* pushes of sendMessage that fill the log it is read from (lines 1274-1287),
\* with what the messaging part above leaves out of a message: its push key
\* and its stored timestamp.  push() makes the key on the client, at the call;
\* the store puts its own time for serverTimestamp() when the write reaches
\* it.  The writes of one client reach the store in the order they were made.

\* sendMessage up to the key of its push: the write is on its way.
PushMessage(u) ==
  /\ nextKey <= MaxPushes
  /\ inFlight' = inFlight \cup { [key |-> nextKey, senderId |-> u] }
  /\ nextKey' = nextKey + 1
  /\ UNCHANGED <<msgLog, serverNow, messagesList>>

\* The push reaches the store, which fills in the timestamp.
CommitPush(w) ==
  /\ w \in inFlight
  /\ \A x \in inFlight : x.senderId = w.senderId => w.key <= x.key
  /\ msgLog' = [msgLog EXCEPT ![w.key] = serverNow]
  /\ inFlight' = inFlight \ {w}
  /\ UNCHANGED <<nextKey, serverNow, messagesList>>

\* The clock of the store moves on.
ServerTick ==
  /\ serverNow < MaxServerTime
  /\ serverNow' = serverNow + 1
  /\ UNCHANGED <<msgLog, inFlight, nextKey, messagesList>>

\* Object.keys(snapshot.val()): the keys of the exported object, which the
\* export fills in key order whatever the order of the query.
RECURSIVE ObjectKeysFrom(_, _)
ObjectKeysFrom(k, messagesData) ==
  IF k > MaxPushes THEN <<>>
  ELSE (IF messagesData[k] # NoStamp THEN <<k>> ELSE <<>>)
         \o ObjectKeysFrom(k + 1, messagesData)

ObjectKeys(messagesData) == ObjectKeysFrom(1, messagesData)

\* The list the callback of the subscription makes of a snapshot.
MessagesList(messagesData) ==
  LET keys == ObjectKeys(messagesData) IN
  [i \in DOMAIN keys |-> [id |-> keys[i], timestamp |-> messagesData[keys[i]]]]

\* The callback of onValue(messagesQuery, ...) runs on the current log; an
\* empty log has no snapshot and gives the empty list.
MessagesEvent ==
  /\ messagesList' = MessagesList(msgLog)
  /\ messagesList' # messagesList
  /\ UNCHANGED <<msgLog, inFlight, nextKey, serverNow>>

NextMessages ==
  /\ \/ \E u \in Users : PushMessage(u)
     \/ \E w \in inFlight : CommitPush(w)
     \/ ServerTick
     \/ MessagesEvent
  /\ UNCHANGED <<messaging, presence, search, listening, account, composer, social, learning>>

SpecMessages == Init /\ [][NextMessages]_vars

\* ============================================================ subscription
\* The effect that loads the messages of the active chat (Explore.tsx, lines
\* 779-800) in the messaging model above: it runs after a render in which
\* `activeChat` is another value than in the render before; its cleanup runs
\* first.  A registration is a listener the client has on a path of the
\* store, with the function it calls.

\* off(ref, 'value', callback): the listeners on the path of `ref` that were
\* registered with `callback` are removed, the others stay.
Off(regs, path, callback) ==
  { r \in regs : ~(r.path = path /\ r.callback = callback) }

\* onValue(query, callback): the listener is registered with `callback`; what
\* onValue returns is another function, the one that removes the listener.
OnValue(regs, path) == regs \cup { [path |-> path, callback |-> "snapshotCallback"] }

\* The cleanup of the effect: off(messagesRef, 'value', unsubscribe), with
\* what onValue returned in the place of the callback.
MessagesCleanup(regs, chat) ==
  IF chat = NoChat THEN regs ELSE Off(regs, chat.id, "unsubscribe")

\* The effect after a render with another activeChat.
MessagesEffect(u) ==
  /\ effectChat[u] # activeChat[u]
  /\ effectChat' = [effectChat EXCEPT ![u] = activeChat[u]]
  /\ LET cleaned == MessagesCleanup(registrations[u], effectChat[u]) IN
     IF activeChat[u] = NoChat
       THEN /\ registrations' = [registrations EXCEPT ![u] = cleaned]
            /\ UNCHANGED toDeliver
       ELSE /\ registrations' =
                 [registrations EXCEPT ![u] = OnValue(cleaned, activeChat[u].id)]
            /\ toDeliver' = [toDeliver EXCEPT ![u] = @ \cup {activeChat[u].id}]
  /\ UNCHANGED <<messaging, viewMessages>>

\* The callback of a listener: setMessages of the list of the snapshot, or of
\* [] when the path holds nothing.
MessagesSnapshot(u, c) ==
  /\ c \in toDeliver[u]
  /\ \E r \in registrations[u] : r.path = c
  /\ toDeliver' = [toDeliver EXCEPT ![u] = @ \ {c}]
  /\ viewMessages' = [viewMessages EXCEPT ![u] = [chat |-> c, list |-> messages[c]]]
  /\ UNCHANGED <<messaging, registrations, effectChat>>

\* The store has an event for every listener on a log that changed.
LogEvents ==
  toDeliver' = [u \in Users |->
                  toDeliver[u] \cup { c \in ChatIds :
                                        /\ messages'[c] # messages[c]
                                        /\ \E r \in registrations[u] : r.path = c }]

\* The view is unmounted and mounted again: the cleanup runs, the new view
\* starts with no messages; a listener that is still registered calls the
\* setMessages of the view that is gone, which sets nothing.
RemountView(u) ==
  /\ Remount(u)
  /\ registrations' = [registrations EXCEPT ![u] = {}]
  /\ effectChat' = [effectChat EXCEPT ![u] = NoChat]
  /\ toDeliver' = [toDeliver EXCEPT ![u] = {}]
  /\ viewMessages' = [viewMessages EXCEPT ![u] = NoList]

\* The state after user 1 has opened a chat with user 2 and then created a
\* group with user 2, both calls over, before any client has loaded its chat
\* list.
InitTwoChats ==
  /\ chats = [c \in ChatIds |->
                IF c = PairId(1, 2) THEN NewIndividualChat(1, 2, 1)
                ELSE IF c = GroupId(1) THEN NewGroupChat(1, <<2>>, <<>>, 2)
                ELSE EmptyRec]
  /\ userChats = [u \in Users |-> {PairId(1, 2), GroupId(1)}]
  /\ messages = [c \in ChatIds |-> <<>>]
  /\ nextGroup = 1
  /\ clock = 3
  /\ nFailed = 0
  /\ localChats = [u \in Users |-> [c \in ChatIds |-> EmptyRec]]
  /\ activeChat = [u \in Users |-> NoChat]
  /\ aliased = [u \in Users |-> FALSE]
  /\ sub = [u \in Users |-> TRUE]
  /\ op = [u \in Users |-> Idle]
  /\ event = Ev(1, "createGroupChat", <<>>, "success")
  /\ e2e = "off"
  /\ raced = [u \in Users |-> FALSE]

InitSubscription ==
  /\ InitTwoChats /\ InitPresence /\ InitSearch /\ InitOrdering /\ InitListening
  /\ InitAccount /\ InitComposer /\ InitSocial /\ InitLearning

\* The client whose view is followed; of the other clients only the
\* handlers are.
Watcher == 1

\* The clients load their lists, switch between the two chats and send; the
\* watcher remounts, and its effect and its listeners run.
NextSubscription ==
  /\ \/ \E u \in Users :
          /\ \/ LoadChats(u)
             \/ \E c \in ChatIds : SelectChat(u, c)
             \/ MessageOps(u)
          /\ LogEvents
          /\ UNCHANGED <<registrations, effectChat, viewMessages>>
     \/ RemountView(Watcher)
     \/ MessagesEffect(Watcher)
     \/ \E c \in ChatIds : MessagesSnapshot(Watcher, c)
  /\ Scenario /\ Race
  /\ UNCHANGED <<presence, search, ordering, account, composer, social, learning>>

SpecSubscription == InitSubscription /\ [][NextSubscription]_vars

\* ================================================================= account
\* The username of a user: the AuthProvider (src/unnamed/part_000, lines
\* 40-215) loads the user's document of the users collection into `userData`
\* when the user signs in, and the Profile view (Explore.tsx, lines 2084-2273)
\* edits a copy, `profileData`, and stores it.  Of the document and of the
\* two copies the model keeps the username.
UsernameInputs == { <<>>, <<"a">>, <<"b">> }

\* onAuthStateChanged with a user: createUserDocument reads the document
\* (made without a username when there is none) into userData; the Profile
\* view mounts with profileData taken from userData.
SignIn(u) ==
  /\ ~userData[u].signedIn
  /\ userData' = [userData EXCEPT ![u] = [signedIn |-> TRUE, username |-> profiles[u].username]]
  /\ profileData' = [profileData EXCEPT ![u] = [username |-> profiles[u].username]]
  /\ UNCHANGED <<profiles, saving>>

\* logout, or the page is left: setUserData(null).  A save in flight goes on.
SignOut(u) ==
  /\ userData[u].signedIn
  /\ userData' = [userData EXCEPT ![u] = SignedOut]
  /\ UNCHANGED <<profiles, profileData, saving>>

\* The Profile view is left for another tab and opened again: useState
\* initialises profileData from userData.
OpenProfile(u) ==
  /\ userData[u].signedIn
  /\ profileData[u].username # userData[u].username
  /\ profileData' = [profileData EXCEPT ![u] = [username |-> userData[u].username]]
  /\ UNCHANGED <<profiles, userData, saving>>

\* disabled={!!userData?.username} of the username input.
UsernameDisabled(u) == userData[u].username # <<>>

\* onChange of the username input.
EditUsername(u, text) ==
  /\ userData[u].signedIn
  /\ ~UsernameDisabled(u)
  /\ profileData[u].username # text
  /\ profileData' = [profileData EXCEPT ![u] = [username |-> text]]
  /\ UNCHANGED <<profiles, userData, saving>>

\* checkUsernameAvailability: no document of users has the username.
CheckUsernameAvailability(u, username) ==
  \/ username = <<>>
  \/ username = userData[u].username
  \/ \A x \in Profiles : profiles[x].username # username

\* handleSaveProfile up to its write: the availability of a username that
\* is not the one in userData is checked.
HandleSaveProfile(u) ==
  /\ userData[u].signedIn
  /\ saving[u] = "idle"
  /\ IF /\ profileData[u].username # userData[u].username
        /\ ~CheckUsernameAvailability(u, profileData[u].username)
       THEN UNCHANGED saving
       ELSE saving' = [saving EXCEPT ![u] = "updateDoc"]
  /\ (saving' # saving \/ profileData[u].username # userData[u].username)
  /\ UNCHANGED <<profiles, userData, profileData>>

\* updateDoc(userRef, {...profileData, updatedAt}): the fields of profileData
\* replace those of the document.
SaveProfileWrite(u) ==
  /\ saving[u] = "updateDoc"
  /\ profiles' = [profiles EXCEPT ![u].username = profileData[u].username]
  /\ saving' = [saving EXCEPT ![u] = "idle"]
  /\ UNCHANGED <<userData, profileData>>

NextAccount ==
  /\ \E u \in Users :
       \/ SignIn(u)
       \/ SignOut(u)
       \/ OpenProfile(u)
       \/ \E text \in UsernameInputs : EditUsername(u, text)
       \/ HandleSaveProfile(u)
       \/ SaveProfileWrite(u)
  /\ UNCHANGED <<messaging, presence, ordering, listening, composer, searcher, searchQuery, searchResults, social, learning>>

SpecAccount == Init /\ [][NextAccount]_vars

\* ================================================================ composer
\* The composer of the open chat (Explore.tsx, lines 1657-1676): the input
\* holds the draft `newMessage`; Enter and the send button call sendMessage,
\* whatever call is in flight; sendMessage clears the draft after its last
\* write (line 1299) and leaves it when a write is rejected.

\* onChange of the input: another draft.
SetNewMessage(u, text) ==
  /\ newMessage[u] # text
  /\ newMessage' = [newMessage EXCEPT ![u] = text]
  /\ copies' = [copies EXCEPT ![u] = 0]
  /\ UNCHANGED <<messaging, second>>

\* The pushes of the draft of client u, one more when this step appends.
CountCopy(u) ==
  copies' = [copies EXCEPT ![u] = IF messages' # messages THEN @ + 1 ELSE @]

\* Enter or the button, no call in flight: sendMessage on the draft.
SendDraft(u) ==
  /\ SendMessage(u, newMessage[u])
  /\ CountCopy(u)
  /\ UNCHANGED <<newMessage, second>>

\* Enter or the button while a sendMessage call of this client is in flight:
\* a second call on the same draft, up to its push.
SendDraftAgain(u) ==
  /\ op[u].pc \in {"send_lastMessage", "send_updatedAt"}
  /\ second[u].pc = "idle"
  /\ ~(IsBlank(newMessage[u]) \/ ~Exists(activeChat[u].rec))
  /\ LET c == activeChat[u].id IN
     /\ CanWrite
     /\ Len(messages[c]) < MaxMsgs
     /\ clock' = clock + 1
     /\ messages' = [messages EXCEPT ![c] = Append(@, NewMessage(u, newMessage[u]))]
     /\ second' = [second EXCEPT ![u] =
                     [Idle EXCEPT !.pc = "send_lastMessage", !.chat = c,
                                  !.content = NewMessage(u, newMessage[u]).content]]
     /\ event' = Ev(u, "sendMessage", newMessage[u], "pending")
  /\ CountCopy(u)
  /\ UNCHANGED <<chats, userChats, nextGroup, nFailed, localChats, activeChat,
                 aliased, sub, op, newMessage>>

\* The second call's set of lastMessage.
SecondLastMessage(u) ==
  /\ second[u].pc = "send_lastMessage"
  /\ chats' = [chats EXCEPT ![second[u].chat] =
                 Update(@, [lastMessage |-> [content |-> second[u].content, senderId |-> u]])]
  /\ second' = [second EXCEPT ![u].pc = "send_updatedAt"]
  /\ UNCHANGED <<userChats, messages, nextGroup, clock, nFailed, localChats, activeChat,
                 aliased, sub, op, event, newMessage, copies>>

\* The second call's set of updatedAt, then setNewMessage('').
SecondUpdatedAt(u) ==
  /\ second[u].pc = "send_updatedAt"
  /\ chats' = [chats EXCEPT ![second[u].chat] = Update(@, [updatedAt |-> clock])]
  /\ second' = [second EXCEPT ![u] = Idle]
  /\ event' = Ev(u, "sendMessage", <<>>, "success")
  /\ newMessage' = [newMessage EXCEPT ![u] = <<>>]
  /\ UNCHANGED <<userChats, messages, nextGroup, clock, nFailed, localChats, activeChat,
                 aliased, sub, op, copies>>

\* The first call's last write, then setNewMessage('').
SendUpdatedAtClears(u) ==
  /\ SendUpdatedAt(u)
  /\ newMessage' = [newMessage EXCEPT ![u] = <<>>]
  /\ UNCHANGED <<second, copies>>

\* The watched client opens a chat, types and sends; a write of a call can
\* be rejected.  The other clients do nothing.
NextComposer ==
  /\ \E u \in {Watcher} :
       \/ /\ \/ Local(u)
             \/ \E other \in Users : CreateOrGetIndividualChat(u, other)
             \/ IndividualChatMarker(u)
             \/ SendLastMessage(u)
             \/ WriteFails(u)
          /\ UNCHANGED composer
       \/ \E text \in Drafts : SetNewMessage(u, text)
       \/ SendDraft(u)
       \/ SendUpdatedAtClears(u)
       \/ SendDraftAgain(u)
       \/ SecondLastMessage(u)
       \/ SecondUpdatedAt(u)
  /\ Scenario /\ Race
  /\ UNCHANGED <<presence, search, ordering, listening, account, social, learning>>

SpecComposer == Init /\ [][NextComposer]_vars

\* =================================================================== likes
\* The like button of a post (Explore.tsx, handleLikePost of Explore, lines
\* 175-202, and of Dashboard, lines 3302-3329, the same code): the feed of a
\* client is what the posts subscription delivered last (lines 97-105), and
\* the button calls handleLikePost with the likes of the post in that feed.

\* arrayUnion(uid), arrayRemove(uid) and increment(n) of the store.
ArrayUnion(likes, uid) == likes \cup {uid}

ArrayRemove(likes, uid) == likes \ {uid}

Increment(n, by) == n + by

\* The callback of onSnapshot: setPosts of the documents as stored.
PostsSnapshot(u) ==
  /\ postView[u] # post.likes
  /\ postView' = [postView EXCEPT ![u] = post.likes]
  /\ UNCHANGED <<post, likeCalls>>

\* handleLikePost(post.id, post.likes) with the likes of the client's feed.
HandleLikePost(u) ==
  /\ likeCalls < MaxLikeCalls
  /\ likeCalls' = likeCalls + 1
  /\ LET currentLikes == postView[u]
         isLiked == u \in currentLikes
     IN post' = IF isLiked
                  THEN [likes |-> ArrayRemove(post.likes, u),
                        likesCount |-> Increment(post.likesCount, -1)]
                  ELSE [likes |-> ArrayUnion(post.likes, u),
                        likesCount |-> Increment(post.likesCount, 1)]
  /\ UNCHANGED postView

NextLikes ==
  /\ \E u \in Users : PostsSnapshot(u) \/ HandleLikePost(u)
  /\ UNCHANGED <<messaging, presence, search, ordering, listening, account, composer, learning>>

SpecLikes == Init /\ [][NextLikes]_vars

\* ================================================================ learning
\* The progress of one user in the Learn view (App.tsx, lines 230-375): the
\* document userProgress/<uid> holds a map `modules`; the view loads it once
\* after mounting into `userProgress`, and every handler writes the whole
\* map back with setDoc, built from the `userProgress` of the render it was
\* called in.  A section id is its 1-based position in the module.

\* setDoc(doc(db, 'userProgress', uid), { modules: {...userProgress, [id]: p} }):
\* the document is replaced by the map given.
SetProgressDoc(moduleId, progress) ==
  /\ progressOps < MaxProgressOps
  /\ progressOps' = progressOps + 1
  /\ progressDoc' = [userProgress EXCEPT ![moduleId] = progress]

\* loadUserProgress: getDoc, then setUserProgress of the modules stored.
LoadUserProgress ==
  /\ ~progressLoaded
  /\ progressLoaded' = TRUE
  /\ userProgress' = progressDoc
  /\ UNCHANGED <<progressDoc, selectedModule, currentSectionIndex, pendingProgress, progressOps>>

\* The Learn view is left and opened again, or the page reloaded: new state,
\* the progress is loaded again.  What waits for a write is dropped.
ReopenLearn ==
  /\ progressLoaded
  /\ progressLoaded' = FALSE
  /\ userProgress' = [m \in Modules |-> NoProgress]
  /\ selectedModule' = 0
  /\ currentSectionIndex' = 0
  /\ pendingProgress' = <<>>
  /\ UNCHANGED <<progressDoc, progressOps>>

\* startModule up to its setDoc.
StartModule(m) ==
  /\ selectedModule' = m
  /\ IF userProgress[m].started
       THEN /\ currentSectionIndex' = userProgress[m].currentSection
            /\ selectedModule # m
            /\ UNCHANGED <<progressDoc, pendingProgress, progressOps>>
       ELSE LET newProgress == [started |-> TRUE, completedSections |-> <<>>,
                                currentSection |-> 0]
            IN /\ currentSectionIndex' = 0
               /\ SetProgressDoc(m, newProgress)
               /\ pendingProgress' = Append(pendingProgress, <<m, newProgress>>)
  /\ UNCHANGED <<userProgress, progressLoaded>>

\* markSectionComplete up to its setDoc.
MarkSectionComplete(sectionId) ==
  /\ selectedModule # 0
  /\ LET progress == userProgress[selectedModule] IN
     /\ progress.started
     /\ sectionId \notin Range(progress.completedSections)
     /\ LET updatedProgress ==
              [progress EXCEPT !.completedSections = Append(@, sectionId)]
        IN /\ SetProgressDoc(selectedModule, updatedProgress)
           /\ pendingProgress' = Append(pendingProgress, <<selectedModule, updatedProgress>>)
  /\ UNCHANGED <<userProgress, progressLoaded, selectedModule, currentSectionIndex>>

\* The awaited setDoc of startModule or markSectionComplete has resolved:
\* setUserProgress(prev => ({...prev, [id]: progress})).
ProgressSaved ==
  /\ pendingProgress # <<>>
  /\ LET first == Head(pendingProgress) IN
     userProgress' = [userProgress EXCEPT ![first[1]] = first[2]]
  /\ pendingProgress' = Tail(pendingProgress)
  /\ UNCHANGED <<progressDoc, progressLoaded, selectedModule, currentSectionIndex, progressOps>>

\* Math.min(currentSectionIndex + 1, sections.length - 1) and
\* Math.max(currentSectionIndex - 1, 0)
NewIndex(direction) ==
  IF direction = "next"
    THEN (IF currentSectionIndex + 1 < NumSections - 1
            THEN currentSectionIndex + 1 ELSE NumSections - 1)
    ELSE (IF currentSectionIndex - 1 > 0 THEN currentSectionIndex - 1 ELSE 0)

\* navigateSection: the setDoc is not awaited, setUserProgress follows at once.
NavigateSection(direction) ==
  /\ selectedModule # 0
  /\ currentSectionIndex' = NewIndex(direction)
  /\ LET progress == userProgress[selectedModule] IN
     IF progress.started
       THEN LET updatedProgress == [progress EXCEPT !.currentSection = NewIndex(direction)]
            IN /\ SetProgressDoc(selectedModule, updatedProgress)
               /\ userProgress' = [userProgress EXCEPT ![selectedModule] = updatedProgress]
       ELSE /\ currentSectionIndex' # currentSectionIndex
            /\ UNCHANGED <<progressDoc, userProgress, progressOps>>
  /\ UNCHANGED <<progressLoaded, selectedModule, pendingProgress>>

NextLearning ==
  /\ \/ LoadUserProgress
     \/ ReopenLearn
     \/ \E m \in Modules : StartModule(m)
     \/ \E sectionId \in Sections : MarkSectionComplete(sectionId)
     \/ ProgressSaved
     \/ \E direction \in {"prev", "next"} : NavigateSection(direction)
  /\ UNCHANGED <<messaging, presence, search, ordering, listening, account, composer, social>>

SpecLearning == Init /\ [][NextLearning]_vars

\* ================================================================== claims
AllIdle == \A u \in Users : op[u].pc = "idle"

\* The stored records of type 'individual' whose participants are a and b.
IndividualRecords(a, b) ==
  { c \in ChatIds : chats[c].type = "individual" /\ chats[c].participants = {a, b} }

\* C1: when two clients open a chat with each other, in any interleaving of
\* their writes, the store never holds a record for the pair under another id
\* than the sorted pair of their ids, and once the calls are over it holds
\* exactly that one record and both users hold a marker for it.
C1_PairConverges ==
  \A a, b \in Users :
    a < b =>
      /\ IndividualRecords(a, b) \subseteq { Join(a, b) }
      /\ \A c \in userChats[a] \cup userChats[b] :
           {a, b} \subseteq chats[c].participants => c = Join(a, b)
      /\ (AllIdle /\ (Join(a, b) \in userChats[a] \cup userChats[b]))
           => /\ IndividualRecords(a, b) = { Join(a, b) }
              /\ Join(a, b) \in userChats[a] \cap userChats[b]

\* Both clients are in the middle of creating the chat with each other.
C1_Witness ==
  \E a, b \in Users :
    /\ a < b
    /\ op[a].pc = "individual_markers" /\ op[a].chat = Join(a, b)
    /\ op[b].pc = "individual_markers" /\ op[b].chat = Join(a, b)
    /\ Len(op[a].queue) = 1 /\ Len(op[b].queue) = 1
\* A step in which handler fn is called: the call changes `event`, and the
\* caller had no handler in flight.
Called(fn) == event' # event /\ event'.fn = fn /\ op[event'.who].pc = "idle"

\* C2: the push of a sendMessage call with non-blank content makes the log of
\* the chat exactly one entry longer, the new entry being the trimmed content
\* at the end, and leaves every other log alone; when the separate lastMessage
\* write of that call lands, chat.lastMessage.content is that content.
C2_SendAppendsOne ==
  [][\A u \in Users :
       /\ (op[u].pc = "idle" /\ op'[u].pc = "send_lastMessage") =>
            LET c == op'[u].chat IN
            /\ event'.who = u /\ ~IsBlank(event'.text)
            /\ Len(messages'[c]) = Len(messages[c]) + 1
            /\ SubSeq(messages'[c], 1, Len(messages[c])) = messages[c]
            /\ messages'[c][Len(messages'[c])] =
                 [senderId |-> u, content |-> Trim(event'.text)]
            /\ op'[u].content = Trim(event'.text)
            /\ \A d \in ChatIds \ {c} : messages'[d] = messages[d]
       /\ (op[u].pc = "send_lastMessage" /\ op'[u].pc = "send_updatedAt") =>
            chats'[op[u].chat].lastMessage.content = op[u].content
       /\ (op[u].pc \in {"send_lastMessage", "send_updatedAt"} /\ op'[u].pc # "idle") =>
            op'[u].content = op[u].content
     ]_vars

\* A sendMessage call has gone through: the log has the message, the chat its summary.
C2_Witness ==
  /\ event.fn = "sendMessage" /\ event.result = "success"
  /\ \E c \in ChatIds :
       /\ Len(messages[c]) = 1
       /\ messages[c][1].content = <<"hi">>
       /\ chats[c].lastMessage = [content |-> <<"hi">>, senderId |-> event.who]

\* C8: every stored chat of type 'individual' has exactly two participants and
\* its id is their two ids, sorted and joined.
C8_IndividualShape ==
  \A c \in ChatIds :
    chats[c].type = "individual" =>
      /\ Cardinality(chats[c].participants) = 2
      /\ \E a, b \in chats[c].participants : a < b /\ c = Join(a, b)

\* An individual chat created by the user with the larger id.
C8_Witness ==
  \E a, b \in Users :
    /\ a < b
    /\ chats[Join(a, b)].type = "individual"
    /\ event = Ev(b, "createOrGetIndividualChat", <<>>, "success")

\* C9: a createOrGetIndividualChat call leaves every chat record that is in
\* the store as it is, whether or not the caller's chat list holds the chat.
C9_ExistingChatKept ==
  [][Called("createOrGetIndividualChat") =>
       \A c \in ChatIds : Exists(chats[c]) => chats'[c] = chats[c]
    ]_vars

\* Text that is empty or all whitespace.
AllWhitespace(text) == \A i \in DOMAIN text : text[i] = Space

\* C10: a sendMessage call with empty or whitespace-only content appends no
\* message, writes to no chat record, and leaves no write of it in flight.
C10_BlankRejected ==
  [][(Called("sendMessage") /\ AllWhitespace(event'.text)) =>
       /\ messages' = messages
       /\ chats' = chats
       /\ userChats' = userChats
       /\ op' = op
    ]_vars

\* A whitespace-only draft was given to sendMessage with a chat open.
C10_Witness ==
  /\ event.fn = "sendMessage"
  /\ event.text = <<Space>>
  /\ event.result = "returned"
  /\ Exists(activeChat[event.who].rec)
\* C3: a call of updateGroupName with a name by an actor who is not in the
\* stored admins of the group writes nothing and is answered with the
\* 'Permission Denied' notification (stated for runs without a rejected write).
C3_NonAdminRenameDenied ==
  [][\A u \in Users :
       ( /\ Called("updateGroupName") /\ event'.who = u
         /\ ~AllWhitespace(event'.text)
         /\ nFailed = 0
         /\ chats[activeChat[u].id].type = "group"
         /\ u \notin chats[activeChat[u].id].admins )
       => (store' = store /\ event'.result = "denied")
    ]_vars

\* C4: when the only participant left in a stored group calls leaveGroup, the
\* call removes the chat record (the removal of the message log follows it);
\* stated for runs without a rejected write.
C4_LastLeaverDeletes ==
  [][\A u \in Users :
       ( /\ Called("leaveGroup") /\ event'.who = u /\ event'.result = "pending"
         /\ nFailed = 0
         /\ chats[op'[u].chat].type = "group"
         /\ chats[op'[u].chat].participants = {u} )
       => ~Exists(chats'[op'[u].chat])
    ]_vars

\* C5: along the end-to-end scenario: the member's rename is rejected and the
\* name stays "Study"; after the admin's rename the name is "Study Group";
\* after the member left the participants are the creator alone; after the
\* creator left neither the chat record nor a message of it exists.
C5_EndToEnd ==
  LET g == chats[ScenarioGroup] IN
  /\ e2e = "member renamed" => (event.result = "denied" /\ g.name = <<"Study">>)
  /\ e2e = "admin renamed" => g.name = <<"Study", Space, "Group">>
  /\ e2e = "member left" => g.participants = {g.createdBy}
  /\ e2e = "admin left" => (~Exists(g) /\ messages[ScenarioGroup] = <<>>)

\* C11: a createGroupChat call with no other member selected is answered with
\* the 'Invalid Group' error and writes nothing: no chat record, no marker,
\* no key taken, no write left in flight.
C11_EmptySelectionRejected ==
  [][\A u \in Users, g \in GroupNameInputs :
       CreateGroupChat(u, <<>>, g) =>
         /\ event' = Ev(u, "createGroupChat", g, "invalid")
         /\ store' = store
         /\ nextGroup' = nextGroup
         /\ op' = op
    ]_vars

\* createGroupChat was called with an empty selection after a group had been
\* created with one.
C11_Witness ==
  /\ event.fn = "createGroupChat" /\ event.result = "invalid"
  /\ nextGroup = 1
  /\ Exists(chats[GroupId(1)])

\* C12: a createGroupChat call with members selected writes, under an id that
\* no record, marker or message has, a record of type 'group' whose
\* participants are the creator and every selected member, with the creator
\* as its only admin and as createdBy, and no marker yet; each later write of
\* the call sets the marker of the next participant and leaves the record
\* alone; and when the call completes, every participant of the record,
\* the creator included, holds the marker.
C12_GroupCreated ==
  [][\A u \in Users :
       /\ (op[u].pc = "idle" /\ op'[u].pc = "group_markers") =>
            LET c == op'[u].chat
                members == Range(op'[u].queue)
            IN
            /\ ~Exists(chats[c]) /\ messages[c] = <<>>
            /\ \A v \in Users : c \notin userChats[v]
            /\ chats'[c].type = "group"
            /\ u \in members /\ Cardinality(members) >= 2
            /\ chats'[c].participants = members
            /\ chats'[c].admins = {u}
            /\ chats'[c].createdBy = u
            /\ userChats' = userChats
       /\ (op[u].pc = "group_markers" /\ op'[u].queue # op[u].queue
             /\ event'.result # "error") =>
            /\ op[u].chat \in userChats'[Head(op[u].queue)]
            /\ chats' = chats
            /\ op'[u].pc = "idle" =>
                  /\ event' = Ev(u, "createGroupChat", <<>>, "success")
                  /\ \A v \in chats'[op[u].chat].participants :
                        op[u].chat \in userChats'[v]
                  /\ u \in chats'[op[u].chat].participants
    ]_vars

\* A createGroupChat call has completed: the group is stored and the creator
\* and the selected member hold its marker.
C12_Witness ==
  /\ event.fn = "createGroupChat" /\ event.result = "success"
  /\ chats[GroupId(1)].type = "group"
  /\ chats[GroupId(1)].participants = Users
  /\ \A v \in Users : GroupId(1) \in userChats[v]

\* C13: a call of removeUserFromGroup on a stored group by an actor who is not
\* in the stored admins writes nothing and is answered with 'Permission
\* Denied'; by an actor who is in the stored admins it takes the target, and
\* nobody else, out of the stored participants and participantDetails, and
\* its second write removes the target's marker of the chat and no other
\* marker (stated for runs without a rejected write).
C13_RemoveAdminGated ==
  [][\A u \in Users :
       /\ ( /\ Called("removeUserFromGroup") /\ event'.who = u
            /\ nFailed = 0
            /\ chats[activeChat[u].id].type = "group" )
          => LET c == activeChat[u].id IN
             IF u \notin chats[c].admins
               THEN store' = store /\ event'.result = "denied"
               ELSE /\ event'.result = "pending"
                    /\ LET target == Head(op'[u].queue) IN
                       /\ chats'[c].participants = chats[c].participants \ {target}
                       /\ chats'[c].details = chats[c].details \ {target}
                    /\ userChats' = userChats
       /\ (op[u].pc = "remove_marker" /\ op'[u].pc = "idle" /\ event'.result = "success")
          => userChats' = [userChats EXCEPT ![Head(op[u].queue)] = @ \ {op[u].chat}]
    ]_vars

\* C14: a successful toggleAdmin call on a stored group by an actor who is in
\* its stored admins flips the target: the target is in the stored admins
\* after the call exactly if it was not before, and nobody else's admin role
\* changes (so a second call undoes the first and a third repeats it); stated
\* for runs without a rejected write.
C14_ToggleFlips ==
  [][\A u, target \in Users :
       ( /\ ToggleAdmin(u, target) /\ event'.result = "success"
         /\ nFailed = 0
         /\ chats[activeChat[u].id].type = "group"
         /\ u \in chats[activeChat[u].id].admins )
       => LET c == activeChat[u].id IN
          /\ (target \in chats'[c].admins) <=> (target \notin chats[c].admins)
          /\ chats'[c].admins \ {target} = chats[c].admins \ {target}
    ]_vars

\* C15: a leaveGroup call by a participant of a stored group that has other
\* participants takes the caller, and nobody else, out of the stored
\* participants, participantDetails and admins and keeps the record; and a
\* leaveGroup call by a user who holds the marker of the chat goes on to
\* remove that marker, whatever the caller's chat list holds (stated for runs
\* without a rejected write).
C15_LeaveKeepsOthers ==
  [][\A u \in Users, c \in ChatIds :
       /\ ( /\ LeaveGroup(u, c)
            /\ nFailed = 0
            /\ chats[c].type = "group"
            /\ u \in chats[c].participants
            /\ chats[c].participants \ {u} # {} )
          => /\ Exists(chats'[c])
             /\ chats'[c].participants = chats[c].participants \ {u}
             /\ chats'[c].details = chats[c].details \ {u}
             /\ chats'[c].admins = chats[c].admins \ {u}
       /\ (LeaveGroup(u, c) /\ nFailed = 0 /\ c \in userChats[u])
          => op'[u].pc \in {"leave_messages", "leave_marker"}
       /\ (op[u].pc = "leave_marker" /\ op'[u].pc = "idle" /\ event'.result = "success")
          => op[u].chat \notin userChats'[u]
    ]_vars

\* The four items of an individual chat: the two markers, the record, the log.
ItemsGone(c, a, b) ==
  /\ c \notin userChats'[a] /\ c \notin userChats'[b]
  /\ ~Exists(chats'[c])
  /\ messages'[c] = <<>>

\* The writes of a deleteChat call on an individual chat, in their order: the
\* caller's marker, the other participant's marker, the record, the log; each
\* removes its item and leaves the items of the later writes alone.
DeleteSteps(u) ==
  /\ (op[u].pc = "idle" /\ op'[u].pc \in DeletePcs) =>
       /\ op'[u].pc = "delete_other"
       /\ op'[u].chat \notin userChats'[u]
       /\ chats' = chats /\ messages' = messages
  /\ (op[u].pc = "delete_other" /\ op'[u].pc = "delete_chat") =>
       /\ op[u].chat \notin userChats'[Head(op[u].queue)]
       /\ localChats[Head(op[u].queue)][op[u].chat].type \in {"individual", "none"}
       /\ chats' = chats /\ messages' = messages
  /\ (op[u].pc = "delete_chat" /\ op'[u].pc = "delete_messages") =>
       /\ ~Exists(chats'[op[u].chat])
       /\ userChats' = userChats /\ messages' = messages
  /\ (op[u].pc = "delete_messages" /\ op'[u].pc = "idle" /\ event'.result = "success") =>
       /\ messages'[op[u].chat] = <<>>
       /\ userChats' = userChats /\ chats' = chats

C6_MembershipIndex ==
  (AllIdle /\ nFailed = 0) =>
    \A c \in ChatIds, u \in Users :
      (u \in chats[c].participants) <=> (c \in userChats[u])

\* C7: the admins of every stored group chat are among its participants
\* (stated for runs without a rejected write).
C7_AdminsAreParticipants ==
  nFailed = 0 =>
    \A c \in ChatIds :
      chats[c].type = "group" => chats[c].admins \subseteq chats[c].participants
\* C17: for a viewer with the view mounted and a user whose stored presence
\* record says isOnline with lastSeen T, the status viewMessages is Online (label
\* 'Online') while less than 120 s have passed since T, so at T+119 s, and
\* offline with a last-seen label once more than 120 s have passed, so at
\* T+121 s; for a stored record that says offline it is offline (in the
\* states in which no interval of the viewer is due).
C17_EffectiveStatus ==
  \A v, w \in Users :
    (view[v] = "mounted" /\ timer[v] > nowSec /\ status[w] # NoStatus) =>
      LET shown == GetOnlineStatus(v, w)
          age == nowSec - status[w].lastSeen
      IN
      /\ (status[w].isOnline /\ age < StaleAfter) =>
            (shown.isOnline /\ shown.lastSeen = <<"Online">>)
      /\ (status[w].isOnline /\ age > StaleAfter) =>
            (~shown.isOnline /\ shown.lastSeen = FormatLastSeen(status[w].lastSeen, nowSec))
      /\ ~status[w].isOnline => ~shown.isOnline

\* C18: from the connectivity signal on, while the view stays mounted and
\* connected, the stored isOnline flag of the user is true.
C18_OnlineWhileConnected ==
  \A u \in Users :
    (view[u] = "mounted" /\ conn[u]) =>
      (status[u] # NoStatus /\ status[u].isOnline)
\* Where document x stands in the result list (0: it is not in it).
Rank(x) ==
  IF x \in Range(searchResults)
    THEN CHOOSE i \in DOMAIN searchResults : searchResults[i] = x
    ELSE 0

\* In the result list of a search, every user whose display name or username
\* starts with the lower-cased query stands before every user that does not,
\* and users of the same class are in the order of their lower-cased display
\* names.
RankingOrder ==
  LET searchTerm == Trim(ToLowerCase(searchQuery)) IN
  \A i, j \in DOMAIN searchResults :
    i < j =>
      LET a == profiles[searchResults[i]]
          b == profiles[searchResults[j]]
      IN
      /\ StartsWithTerm(b, searchTerm) => StartsWithTerm(a, searchTerm)
      /\ (StartsWithTerm(a, searchTerm) <=> StartsWithTerm(b, searchTerm))
           => ~StrLess(ToLowerCase(b.displayName), ToLowerCase(a.displayName))

\* C19 as stated: the result list of every search is in that order, and with
\* "Alice Smith"/@alice and "Bob Alison"/@bobA among the other users, a
\* query that is a prefix of "alice" and a non-prefix substring of
\* "bob alison" lists both, Alice Smith before Bob Alison.
C19_SearchRanking ==
  (searcher # NoUser /\ Trim(searchQuery) # <<>>) =>
    /\ RankingOrder
    /\ \A x, y \in Profiles \ {searcher} :
         (profiles[x] = AliceSmith /\ profiles[y] = BobAlison /\ searchQuery = <<"a">>)
           => (0 < Rank(x) /\ Rank(x) < Rank(y))

\* C19, amended: the result list of every search is in that order; a user
\* that matches only as a non-prefix substring is listed only by the broader
\* scan, that is when the two range queries list nobody, so with
\* "Alice Smith"/@alice and "Bob Alison"/@bobA that query lists Alice Smith
\* and not Bob Alison.
C19_SearchRankingOfListed ==
  (searcher # NoUser /\ Trim(searchQuery) # <<>>) =>
    LET searchTerm == Trim(ToLowerCase(searchQuery))
        ranged == Range(RangeQuery(profiles, "displayName", searchTerm))
                    \cup Range(RangeQuery(profiles, "username", searchTerm))
    IN
    /\ RankingOrder
    /\ (ranged \ {searcher} # {}) =>
         \A i \in DOMAIN searchResults :
           StartsWithTerm(profiles[searchResults[i]], searchTerm)
    /\ \A x, y \in Profiles \ {searcher} :
         (profiles[x] = AliceSmith /\ profiles[y] = BobAlison /\ searchQuery = <<"a">>)
           => (0 < Rank(x) /\ Rank(y) = 0)

\* A search whose result list has a user that starts with the query followed
\* by one that matches as a substring only, the first with the larger
\* display name.
C19_Witness ==
  /\ searcher # NoUser
  /\ \E i, j \in DOMAIN searchResults :
       LET searchTerm == Trim(ToLowerCase(searchQuery))
           a == profiles[searchResults[i]]
           b == profiles[searchResults[j]]
       IN /\ i < j
          /\ StartsWithTerm(a, searchTerm) /\ ~StartsWithTerm(b, searchTerm)
          /\ StrLess(ToLowerCase(b.displayName), ToLowerCase(a.displayName))
\* C20: the message list the subscription of a chat delivers is in the order
\* of the stored timestamps, ascending, and messages with the same timestamp
\* are in the order of their keys.
C20_MessagesOrdered ==
  \A i, j \in DOMAIN messagesList :
    i < j =>
      \/ messagesList[i].timestamp < messagesList[j].timestamp
      \/ /\ messagesList[i].timestamp = messagesList[j].timestamp
         /\ messagesList[i].id < messagesList[j].id
\* C21: once a client's message effect has run for its active chat and the
\* listener on that chat has nothing left to deliver, every message in the
\* client's list is a message of the active chat: no listener on a chat the
\* client has switched away from delivers any more.
C21_OnlyActiveChatDelivered ==
  \A u \in Users :
    (/\ activeChat[u] # NoChat
     /\ effectChat[u] = activeChat[u]
     /\ activeChat[u].id \notin toDeliver[u])
      => (viewMessages[u].list # <<>> => viewMessages[u].chat = activeChat[u].id)
\* C22: a username that is stored for a user and is not empty is not changed
\* by any later profile save of that user.
C22_UsernameImmutable ==
  [][\A u \in Users :
       profiles[u].username # <<>> => profiles'[u].username = profiles[u].username]_vars
\* C23: when no handler is in flight and no write was rejected, the
\* lastMessage of every chat with a non-empty log has the content and the
\* sender of the last message of the log.
C23_LastMessageMirrorsTail ==
  (AllIdle /\ nFailed = 0) =>
    \A c \in ChatIds :
      messages[c] # <<>> =>
        LET tail == messages[c][Len(messages[c])] IN
        /\ chats[c].lastMessage.content = tail.content
        /\ chats[c].lastMessage.senderId = tail.senderId
\* C24: every stored group chat that has a participant has an admin.
C24_GroupHasAdmin ==
  \A c \in ChatIds :
    (chats[c].type = "group" /\ chats[c].participants # {}) => chats[c].admins # {}
\* C25: whenever a message is appended to the log of a chat, its sender is
\* among the participants the store holds for that chat at that moment.
C25_SenderIsParticipant ==
  [][\A c \in ChatIds :
       Len(messages'[c]) > Len(messages[c]) =>
         messages'[c][Len(messages'[c])].senderId \in chats[c].participants]_vars
\* A record with the fields a chat is created with.
WellFormed(rec) == rec.type \in {"individual", "group"} /\ rec.participants # {}

\* C26: with no handler in flight and no write rejected, every message log
\* that exists belongs to a stored chat record that is well formed, and the
\* store holds no record that has a lastMessage or updatedAt and no type or
\* participants.
C26_DeletionIsFinal ==
  (AllIdle /\ nFailed = 0) =>
    \A c \in ChatIds :
      /\ messages[c] # <<>> => WellFormed(chats[c])
      /\ Exists(chats[c]) => WellFormed(chats[c])
\* The ids of the chats in the loaded list of client u.
ListIds(u) == { c \in ChatIds : Exists(localChats[u][c]) }

\* C27: once the subscription of a client has delivered the latest snapshot
\* of the user's markers, the client's list holds exactly the stored chats the
\* user has a marker for (so it is empty when the user has none left); and
\* the chat an existing-chat result of createOrGetIndividualChat activates is
\* stored.
C27_ListTracksMarkers ==
  /\ [](\A u \in Users :
          ~sub[u] => ListIds(u) = { c \in userChats[u] : Exists(chats[c]) })
  /\ [][\A u \in Users :
          (event' # event /\ event' = Ev(u, "createOrGetIndividualChat", <<>>, "existing"))
            => Exists(chats[activeChat'[u].id])]_vars
\* C28: a draft is pushed to the message log at most once, however often
\* sendMessage is triggered on it.
C28_DraftAppendedOnce == \A u \in Users : copies[u] <= 1
\* C29: the likesCount of the post is the number of user ids in its likes.
C29_LikesCountMatches == post.likesCount = Cardinality(post.likes)
\* C30: a section id that is stored in the completedSections of a module
\* stays stored whatever the Learn view does next, and no completedSections
\* holds a section id twice.
C30_ProgressKept ==
  /\ [][\A m \in Modules :
          Range(progressDoc[m].completedSections)
            \subseteq Range(progressDoc'[m].completedSections)]_vars
  /\ [](\A m \in Modules :
          Cardinality(Range(progressDoc[m].completedSections))
            = Len(progressDoc[m].completedSections))
====
